---------------------------- MODULE Spec2Model ----------------------------
(***************************************************************************)
(* A model of the scripts of evm-cctp-contracts:                           *)
(*   anvil/crosschainTransferITV2.py  the cross-chain transfer test        *)
(*   anvil/test.py                    the Counter test                     *)
(*   scripts/precomputeRemoteMessengerAddress.py                           *)
(* Bytes are numbers 0..255 and byte strings are sequences of them, so the *)
(* Python offset k is the index k+1 here.  Keccak-256 and ECDSA signing    *)
(* are symbolic: a digest is the record of what was hashed, a signature    *)
(* the record of the signer and the digest signed.                         *)
(***************************************************************************)
EXTENDS Integers, Sequences, FiniteSets, TLC

VARIABLES
    \* update_and_sign_emitted_message called on its own
    message_bytes,  \* its argument
    result,         \* what it returned
    \* crosschainTransferITV2.py: the script
    pc,             \* the statement of setUp + test_crosschain_transfer to run
    phase,          \* "call": about to run it; "confirm": in confirm_transaction
    status,         \* "running", "passed", or the exception that ended the run
    counter,        \* confirm_transaction's counter
    polls,          \* the get_transaction_receipt calls of this confirm_transaction
    lastPoll,       \* what the latest get_transaction_receipt gave
    bound,          \* the contracts whose handle (address) the script holds
    signed,         \* (avax_message, signed_avax_message) and the ETH pair
    observed,       \* the balances each verify_* call read
    \* crosschainTransferITV2.py: the node and the contracts on it
    txs,            \* the transactions sent, with their receipts
    txCount,        \* eth.get_transaction_count of each account
    deployed,       \* the contracts with code on the node
    calls,          \* the configuration calls that succeeded
    balances,       \* balanceOf of each USDC
    allowance,      \* allowance of each USDC
    logs,           \* the MessageSent events of each message transmitter
    usedNonces,     \* the nonces each message transmitter has received
    \* precomputeRemoteMessengerAddress.py
    envFile,        \* the contents of .env
    fileBefore,     \* ... as they were when the run started
    processEnv,     \* REMOTE_TOKEN_MESSENGER_DEPLOYER as the process got it
    environ,        \* ... in os.environ after load_dotenv
    getenvKeys,     \* the variables the run has read with os.getenv
    remoteNonce,    \* the deployer's transaction count on the remote node
    sinceRead,      \* the deployer's transactions since the run read that count
    created,        \* the contracts the deployer created since, in order, each
                    \* with the deployer's transactions between the read and it
    runs,           \* the runs of the script before this one
    scriptPc,       \* "start", "loaded", "done", "raised"
    \* test.py
    counters,       \* the count of each Counter on the node, by address
    selfCounter,    \* self.counter: the address the test case holds
    current,        \* the test method's `current`
    testName,       \* the test method that runs
    testPc,         \* "idle", "setUp", "call", "assert"
    ran             \* the test methods that ran, with what they read

patchVars == <<message_bytes, result>>
scriptVars == <<pc, phase, status, counter, polls, lastPoll, bound, signed, observed>>
nodeVars == <<txs, txCount, deployed, calls, balances, allowance, logs, usedNonces>>

envVars == <<envFile, fileBefore, processEnv, environ, getenvKeys, remoteNonce,
             sinceRead, created, runs, scriptPc>>
counterVars == <<counters, selfCounter, current, testName, testPc, ran>>

vars == <<message_bytes, result, pc, phase, status, counter, polls, lastPoll, bound,
          signed, observed, txs, txCount, deployed, calls, balances, allowance,
          logs, usedNonces, envFile, fileBefore, processEnv, environ, getenvKeys,
          remoteNonce, sinceRead, created, runs, scriptPc, counters, selfCounter, current, testName,
          testPc, ran>>

Min(a, b) == IF a <= b THEN a ELSE b

(***************************************************************************)
(* Fixed values, crosschainTransferITV2.py lines 12-32.                    *)
(***************************************************************************)
eth_domain == 0
avax_domain == 1
minter_allowance == 1000
mint_amount == 100
finality_threshold_executed == 1000
fee_executed_as_max_fee == 10
fee_executed == 5
min_fee == 1

nonce_index_start == 12
nonce_length == 32
finality_threshold_executed_start == 144
finality_threshold_executed_length == 4
fee_index_of_amount == 148 + 68
fee_executed_index_start == 148 + 164
fee_executed_length == 32

(***************************************************************************)
(* Byte-string helpers.                                                    *)
(***************************************************************************)
\* int.to_bytes(length, "big") for 0 <= n < 2^31: the low four bytes carry n,
\* every byte above them is 0.
ToBytesBig(n, length) ==
    [i \in 1..length |->
        LET k == length - i
        IN  IF k = 0 THEN n % 256
            ELSE IF k = 1 THEN (n \div 256) % 256
            ELSE IF k = 2 THEN (n \div 65536) % 256
            ELSE IF k = 3 THEN (n \div 16777216) % 256
            ELSE 0]

\* int.from_bytes(b, "big"), for values below 2^31.
RECURSIVE FromBytesBig(_)
FromBytesBig(b) ==
    IF Len(b) = 0 THEN 0
    ELSE 256 * FromBytesBig(SubSeq(b, 1, Len(b) - 1)) + b[Len(b)]

\* The mutant of SliceAssign: an insertion at start that replaces nothing.
SliceInsert(b, start, stop, v) ==
    LET lo == Min(start, Len(b))
    IN  SubSeq(b, 1, lo) \o v \o SubSeq(b, lo + 1, Len(b))

\* bytearray b[start:stop] = v, start <= stop: Python clamps both ends of the
\* slice to len(b), replaces what lies between them by v, and the array grows
\* or shrinks when v has another length than the slice.
SliceAssign(b, start, stop, v) ==
    LET lo == Min(start, Len(b))
        hi == Min(stop, Len(b))
    IN  SubSeq(b, 1, lo) \o v \o SubSeq(b, hi + 1, Len(b))

\* Web3.keccak(text="nonce"): 7ab1577440dd7bedf920cb6de2f9fc6bf7ba98c78c85a3fa
\* 1f8311aac95e1759.
KeccakOfNonceText ==
    << 122, 177,  87, 116,  64, 221, 123, 237, 249,  32, 203, 109, 226, 249,
       252, 107, 247, 186, 152, 199, 140, 133, 163, 250,  31, 131,  17, 170,
       201,  94,  23,  89 >>

\* Web3.keccak(bytes), symbolic: equal digests come from equal inputs only.
Keccak(b) == [keccak |-> b]

\* Account.from_key(key).signHash(digest).signature, symbolic.
SignHash(signer, digest) == [signer |-> signer, digest |-> digest]

NoSignature == [signer |-> "", digest |-> Keccak(<<>>)]
NoResult == [returned |-> FALSE, signable_bytes |-> <<>>, signed_bytes |-> NoSignature]

(***************************************************************************)
(* update_and_sign_emitted_message, lines 161-182.                         *)
(***************************************************************************)
\* The mutant of SignedDigest: the attester signs the message as emitted.
SignedDigestOfOriginal(original, signable_bytes) == Keccak(original)

\* What the attester signs: the hash of the patched bytes (lines 179-181).
SignedDigest(original, signable_bytes) == Keccak(signable_bytes)

UpdateAndSignEmittedMessage(m) ==
    LET b1 == SliceAssign(m, nonce_index_start,
                          nonce_index_start + nonce_length, KeccakOfNonceText)
        b2 == SliceAssign(b1, finality_threshold_executed_start,
                          finality_threshold_executed_start
                              + finality_threshold_executed_length,
                          ToBytesBig(finality_threshold_executed, 4))
        b3 == SliceAssign(b2, fee_executed_index_start,
                          fee_executed_index_start + fee_executed_length,
                          ToBytesBig(fee_executed, 32))
    IN  [returned |-> TRUE,
         signable_bytes |-> b3,
         signed_bytes |-> SignHash("attester", SignedDigest(m, b3))]

(***************************************************************************)
(* crosschainTransferITV2.py: setUp and test_crosschain_transfer as the    *)
(* sequence of statements they run.  A statement is a record               *)
(*   op      "deploy"  deploy_contract_from_source                         *)
(*           "send"    send_transaction                                    *)
(*           "verify_balances", "verify_fees_collected"                    *)
(*           "update_and_sign"  the MessageSent filter and the patch       *)
(*   target  the contract deployed, called or filtered                     *)
(*   fn      the function called                                           *)
(*   caller  the key of addresses[] that signs ("" : transact())           *)
(*   refs    the contracts whose address or ABI the statement reads        *)
(*   a1..a3, n1..n4  the arguments the model uses, named at each statement *)
(*   line    the statement's first line in the source                      *)
(***************************************************************************)
Stmt(op, target, fn, caller, refs, a1, a2, a3, n1, n2, n3, n4, line) ==
    [op |-> op, target |-> target, fn |-> fn, caller |-> caller, refs |-> refs,
     a1 |-> a1, a2 |-> a2, a3 |-> a3, n1 |-> n1, n2 |-> n2, n3 |-> n3,
     n4 |-> n4, line |-> line]

Deploy(target, caller, refs, a1, n1, line) ==
    Stmt("deploy", target, "constructor", caller, refs, a1, "", "", n1, 0, 0, 0, line)

Send(target, fn, caller, refs, a1, a2, a3, n1, n2, line) ==
    Stmt("send", target, fn, caller, refs, a1, a2, a3, n1, n2, 0, 0, line)

\* depositForBurn(amount n1, destinationDomain n2, mintRecipient a1,
\*                burnToken a2, destinationCaller a3, maxFee n3,
\*                minFinalityThreshold n4)
DepositForBurn(target, caller, refs, a1, a2, a3, n1, n2, n3, n4, line) ==
    Stmt("send", target, "depositForBurn", caller, refs, a1, a2, a3, n1, n2, n3, n4, line)

Verify(op, n1, n2, line) ==
    Stmt(op, "", "", "", {}, "", "", "", n1, n2, 0, 0, line)

\* USDC on one chain (lines 213-269): deploy, initialize(masterMinter a1),
\* initializeV2, initializeV2_1.
UsdcSetUp(usdc, master, line) ==
    << Deploy(usdc, "", {}, "", 0, line),
       Send(usdc, "initialize", master, {usdc}, master, "", "", 0, 0, line + 5),
       Send(usdc, "initializeV2", master, {usdc}, "", "", "", 0, 0, line + 18),
       Send(usdc, "initializeV2_1", master, {usdc}, "", "", "", 0, 0, line + 21) >>

\* The mutant of MessengerInitSender: the AVAX initialize is sent by the
\* account that deployed the AVAX proxy.
MessengerInitSenderOwnChain(c) == c \o "_token_messenger_deployer"

\* Who sends token_messenger.initialize: eth_token_messenger_deployer on both
\* chains (lines 352 and 431).
MessengerInitSender(c) == "eth_token_messenger_deployer"

\* The mutant of TransmitterDeployOrder: the proxy before its implementation.
TransmitterProxyFirst(impl, proxy) == <<proxy, impl>>

\* Lines 274-289 and 356-371: the implementation, then the proxy over it.
TransmitterDeployOrder(impl, proxy) == <<impl, proxy>>

\* The contracts of one chain c ("eth", "avax"), lines 271-353 and 355-432:
\*   MessageTransmitterV2(localDomain n1), AdminUpgradableProxy(impl a1),
\*   message_transmitter.initialize(attester a1),
\*   TokenMinterV2(tokenController a1),
\*   TokenMessengerV2(messageTransmitter a1), AdminUpgradableProxy(impl a1),
\*   token_messenger.initialize(tokenMinter a1, feeRecipient a2,
\*       remoteTokenMessenger a3 of remoteDomain n1, n2 of them).
ChainSetUp(c, domain, remotes, remoteDomain, remoteMessenger, line) ==
    LET mtImpl == c \o "_message_transmitter_impl"
        mtProxy == c \o "_message_transmitter_proxy"
        mtDeployer == c \o "_message_transmitter_deployer"
        minter == c \o "_token_minter"
        tmImpl == c \o "_token_messenger_impl"
        tmProxy == c \o "_token_messenger_proxy"
        tmDeployer == c \o "_token_messenger_deployer"
        mtDeploys ==
            [t \in {mtImpl, mtProxy} |->
                IF t = mtImpl
                THEN Deploy(mtImpl, mtDeployer, {}, "", domain, line)
                ELSE Deploy(mtProxy, mtDeployer, {mtImpl}, mtImpl, 0, line + 6)]
        order == TransmitterDeployOrder(mtImpl, mtProxy)
    IN  << mtDeploys[order[1]],
           mtDeploys[order[2]],
           Send(mtProxy, "initialize", mtDeployer, {mtImpl, mtProxy},
                "attester", "", "", 0, 0, line + 20),
           Deploy(minter, c \o "_token_minter_deployer", {},
                  c \o "_token_controller", 0,
                  IF c = "eth" THEN line + 34 ELSE line + 32),
           Deploy(tmImpl, tmDeployer, {mtProxy}, mtProxy, 0,
                  IF c = "eth" THEN line + 42 ELSE line + 38),
           Deploy(tmProxy, tmDeployer, {tmImpl}, tmImpl, 0,
                  IF c = "eth" THEN line + 51 ELSE line + 47),
           Send(tmProxy, "initialize", MessengerInitSender(c),
                {tmImpl, tmProxy, minter}
                    \cup (IF remotes = 0 THEN {}
                          ELSE {"eth_token_messenger_impl", remoteMessenger}),
                minter, tmDeployer, remoteMessenger, remoteDomain, remotes,
                IF c = "eth" THEN line + 64 ELSE line + 61) >>

EthMessenger == {"eth_token_messenger_impl", "eth_token_messenger_proxy"}
AvaxMessenger == {"avax_token_messenger_impl", "avax_token_messenger_proxy"}
EthTransmitter == {"eth_message_transmitter_impl", "eth_message_transmitter_proxy"}
AvaxTransmitter == {"avax_message_transmitter_impl", "avax_message_transmitter_proxy"}

\* Lines 434-512: configureMinter(minter a1, allowance n1),
\* addLocalTokenMessenger(a1), setMaxBurnAmountPerMessage(token a1, n1),
\* linkTokenPair(localToken a1, remoteDomain n1, remoteToken a2),
\* addRemoteTokenMessenger(domain n1, tokenMessenger a1).
max_burn_message_amount == 1000000

MinterWiring ==
    << Send("eth_usdc", "configureMinter", "eth_usdc_master_minter", {"eth_usdc"},
            "eth_usdc_master_minter", "", "", minter_allowance, 0, 435),
       Send("avax_usdc", "configureMinter", "avax_usdc_master_minter", {"avax_usdc"},
            "avax_usdc_master_minter", "", "", minter_allowance, 0, 441),
       Send("eth_usdc", "configureMinter", "eth_usdc_master_minter",
            {"eth_usdc", "eth_token_minter"},
            "eth_token_minter", "", "", minter_allowance, 0, 447),
       Send("avax_usdc", "configureMinter", "avax_usdc_master_minter",
            {"avax_usdc", "avax_token_minter"},
            "avax_token_minter", "", "", minter_allowance, 0, 453),
       Send("eth_token_minter", "addLocalTokenMessenger", "eth_token_minter_deployer",
            {"eth_token_minter"} \cup EthMessenger,
            "eth_token_messenger_proxy", "", "", 0, 0, 461),
       Send("avax_token_minter", "addLocalTokenMessenger", "avax_token_minter_deployer",
            {"avax_token_minter"} \cup AvaxMessenger,
            "avax_token_messenger_proxy", "", "", 0, 0, 467),
       Send("eth_token_minter", "setMaxBurnAmountPerMessage", "eth_token_controller",
            {"eth_token_minter", "eth_usdc"},
            "eth_usdc", "", "", max_burn_message_amount, 0, 475),
       Send("avax_token_minter", "setMaxBurnAmountPerMessage", "avax_token_controller",
            {"avax_token_minter", "avax_usdc"},
            "avax_usdc", "", "", max_burn_message_amount, 0, 481),
       Send("eth_token_minter", "linkTokenPair", "eth_token_controller",
            {"eth_token_minter", "eth_usdc", "avax_usdc"},
            "eth_usdc", "avax_usdc", "", avax_domain, 0, 489),
       Send("avax_token_minter", "linkTokenPair", "avax_token_controller",
            {"avax_token_minter", "avax_usdc", "eth_usdc"},
            "avax_usdc", "eth_usdc", "", eth_domain, 0, 497) >>

\* The mutant of RemoteWiring: the ETH token messenger is given its own
\* address as the remote token messenger.
RemoteWiringOfOwnChain ==
    << Send("eth_token_messenger_proxy", "addRemoteTokenMessenger",
            "eth_token_messenger_deployer", EthMessenger \cup AvaxMessenger,
            "eth_token_messenger_proxy", "", "", avax_domain, 0, 507) >>

\* Lines 505-512: addRemoteTokenMessenger on ETH; AVAX was configured through
\* initialize().
RemoteWiring ==
    << Send("eth_token_messenger_proxy", "addRemoteTokenMessenger",
            "eth_token_messenger_deployer", EthMessenger \cup AvaxMessenger,
            "avax_token_messenger_proxy", "", "", avax_domain, 0, 507) >>

Wiring == MinterWiring \o RemoteWiring

\* setUp, lines 208-512.
SetUp ==
    UsdcSetUp("eth_usdc", "eth_usdc_master_minter", 214)
        \o UsdcSetUp("avax_usdc", "avax_usdc_master_minter", 243)
        \o ChainSetUp("eth", eth_domain, 0, 0, "", 274)
        \o ChainSetUp("avax", avax_domain, 1, eth_domain,
                      "eth_token_messenger_proxy", 356)
        \o Wiring

max_fee == 10
min_finality_threshold == 1000

\* test_crosschain_transfer, lines 514-621: mint(to a1, amount n1),
\* approve(spender a1, amount n1), depositForBurn,
\* update_and_sign (the first MessageSent of target, kept under a1),
\* receiveMessage(the pair kept under a1).
TestCrosschainTransfer ==
    << Send("avax_usdc", "mint", "avax_usdc_master_minter", {"avax_usdc"},
            "avax_token_messenger_user", "", "", mint_amount, 0, 516),
       Send("eth_usdc", "mint", "eth_usdc_master_minter", {"eth_usdc"},
            "eth_token_messenger_user", "", "", mint_amount, 0, 522),
       Verify("verify_balances", 100, 100, 528),
       Verify("verify_fees_collected", 0, 0, 529),
       Send("avax_usdc", "approve", "avax_token_messenger_user",
            {"avax_usdc"} \cup AvaxMessenger,
            "avax_token_messenger_proxy", "", "", mint_amount, 0, 532),
       DepositForBurn("avax_token_messenger_proxy", "avax_token_messenger_user",
            AvaxMessenger \cup {"avax_usdc"},
            "eth_token_messenger_user", "avax_usdc", "eth_token_messenger_user",
            mint_amount, eth_domain, max_fee, min_finality_threshold, 540),
       Verify("verify_balances", 100, 0, 554),
       Verify("verify_fees_collected", 0, 0, 555),
       Stmt("update_and_sign", "avax_message_transmitter_proxy", "", "",
            AvaxTransmitter, "avax", "", "", 0, 0, 0, 0, 558),
       Send("eth_message_transmitter_proxy", "receiveMessage",
            "eth_token_messenger_user", EthTransmitter, "avax", "", "", 0, 0, 568),
       Verify("verify_balances", 195, 0, 574),
       Verify("verify_fees_collected", 5, 0, 575),
       Send("eth_usdc", "approve", "eth_token_messenger_user",
            {"eth_usdc"} \cup EthMessenger,
            "eth_token_messenger_proxy", "", "", mint_amount, 0, 578),
       DepositForBurn("eth_token_messenger_proxy", "eth_token_messenger_user",
            EthMessenger \cup {"eth_usdc"},
            "avax_token_messenger_user", "eth_usdc", "avax_token_messenger_user",
            mint_amount, avax_domain, max_fee, min_finality_threshold, 586),
       Verify("verify_balances", 95, 0, 600),
       Verify("verify_fees_collected", 5, 0, 601),
       Stmt("update_and_sign", "eth_message_transmitter_proxy", "", "",
            EthTransmitter, "eth", "", "", 0, 0, 0, 0, 604),
       Send("avax_message_transmitter_proxy", "receiveMessage",
            "avax_token_messenger_user", AvaxTransmitter, "eth", "", "", 0, 0, 614),
       Verify("verify_balances", 95, 95, 620),
       Verify("verify_fees_collected", 5, 5, 621) >>

\* unittest runs setUp, then the test method.
Script == SetUp \o TestCrosschainTransfer

Accounts ==
    {"default", "attester",
     "eth_usdc_master_minter", "avax_usdc_master_minter",
     "eth_message_transmitter_deployer", "avax_message_transmitter_deployer",
     "eth_token_minter_deployer", "avax_token_minter_deployer",
     "eth_token_messenger_deployer", "avax_token_messenger_deployer",
     "eth_token_controller", "avax_token_controller",
     "eth_token_messenger_user", "avax_token_messenger_user"}

Tokens == {"eth_usdc", "avax_usdc"}
Transmitters == {"eth_message_transmitter_proxy", "avax_message_transmitter_proxy"}
Contracts == {Script[i].target : i \in {j \in 1..Len(Script) : Script[j].op = "deploy"}}

\* An address as a number: the accounts and contracts the messages name.
AddressBook ==
    << "eth_token_messenger_user", "avax_token_messenger_user",
       "eth_token_messenger_proxy", "avax_token_messenger_proxy",
       "eth_usdc", "avax_usdc" >>

AddrId(name) ==
    IF \E i \in 1..Len(AddressBook) : AddressBook[i] = name
    THEN CHOOSE i \in 1..Len(AddressBook) : AddressBook[i] = name
    ELSE 0

AddrName(id) == IF id \in 1..Len(AddressBook) THEN AddressBook[id] ELSE ""

\* to_32byte_hex, lines 184-188: the address left-padded to 32 bytes.
To32ByteHex(name) == ToBytesBig(AddrId(name), 32)

(***************************************************************************)
(* The contracts, as far as the script depends on them.  Their code is not *)
(* part of the scripts: what follows is the burn-and-mint model the        *)
(* specification describes, over the message layout the script's offsets   *)
(* (lines 24-32) are taken from:                                           *)
(*   header  version 4 | sourceDomain 4 | destinationDomain 4 | nonce 32 | *)
(*           sender 32 | recipient 32 | destinationCaller 32 |             *)
(*           minFinalityThreshold 4 | finalityThresholdExecuted 4          *)
(*   body    version 4 | burnToken 32 | mintRecipient 32 | amount 32 |     *)
(*           messageSender 32 | maxFee 32 | feeExecuted 32 |               *)
(*           expirationBlock 32                                            *)
(***************************************************************************)
message_version == 1
message_body_version == 1
message_body_start == 148

Field(m, offset, length) == SubSeq(m, offset + 1, offset + length)
Number(m, offset, length) == FromBytesBig(Field(m, offset, length))

\* The MessageSent event of a depositForBurn: nonce, finalityThresholdExecuted,
\* feeExecuted and expirationBlock are empty when the message is emitted.
EmittedMessage(sourceDomain, destinationDomain, sender, recipient, destinationCaller, minFinalityThreshold, burnToken, mintRecipient, amount, messageSender, maxFee) ==
    ToBytesBig(message_version, 4) \o ToBytesBig(sourceDomain, 4)
        \o ToBytesBig(destinationDomain, 4) \o ToBytesBig(0, 32)
        \o To32ByteHex(sender) \o To32ByteHex(recipient)
        \o To32ByteHex(destinationCaller)
        \o ToBytesBig(minFinalityThreshold, 4) \o ToBytesBig(0, 4)
        \o ToBytesBig(message_body_version, 4) \o To32ByteHex(burnToken)
        \o To32ByteHex(mintRecipient) \o ToBytesBig(amount, 32)
        \o To32ByteHex(messageSender) \o ToBytesBig(maxFee, 32)
        \o ToBytesBig(0, 32) \o ToBytesBig(0, 32)

MsgSourceDomain(m) == Number(m, 4, 4)
MsgDestinationDomain(m) == Number(m, 8, 4)
MsgNonce(m) == Field(m, 12, 32)
MsgSender(m) == AddrName(Number(m, 44, 32))
MsgRecipient(m) == AddrName(Number(m, 76, 32))
MsgDestinationCaller(m) == AddrName(Number(m, 108, 32))
MsgFinalityThresholdExecuted(m) == Number(m, 144, 4)
MsgBurnToken(m) == AddrName(Number(m, message_body_start + 4, 32))
MsgMintRecipient(m) == AddrName(Number(m, message_body_start + 36, 32))
MsgAmount(m) == Number(m, message_body_start + 68, 32)
MsgMaxFee(m) == Number(m, message_body_start + 132, 32)
MsgFeeExecuted(m) == Number(m, message_body_start + 164, 32)

\* A successful call, as `calls` keeps it.
Call(s) == [on |-> s.target, fn |-> s.fn, a1 |-> s.a1, a2 |-> s.a2, a3 |-> s.a3,
            n1 |-> s.n1, n2 |-> s.n2]

Called(on, fn) == {c \in calls : c.on = on /\ c.fn = fn}

Initialized(c) == Called(c, "initialize") # {}
IsMinter(token, who) == \E c \in Called(token, "configureMinter") : c.a1 = who
TokenMinterOf(messenger) == {c.a1 : c \in Called(messenger, "initialize")}
FeeRecipientOf(messenger) == {c.a2 : c \in Called(messenger, "initialize")}
RemoteTokenMessengers(messenger, domain) ==
    {c.a3 : c \in {d \in Called(messenger, "initialize") :
                       d.n2 > 0 /\ d.n1 = domain}}
        \cup {c.a1 : c \in {d \in Called(messenger, "addRemoteTokenMessenger") :
                                d.n1 = domain}}
LocalTokenMessengers(minter) ==
    {c.a1 : c \in Called(minter, "addLocalTokenMessenger")}
BurnLimit(minter, token) ==
    {c.n1 : c \in {d \in Called(minter, "setMaxBurnAmountPerMessage") : d.a1 = token}}
LocalTokens(minter, remoteDomain, remoteToken) ==
    {c.a1 : c \in {d \in Called(minter, "linkTokenPair") :
                       d.n1 = remoteDomain /\ d.a2 = remoteToken}}
Attesters(transmitter) == {c.a1 : c \in Called(transmitter, "initialize")}
\* A proxy's implementation, a token messenger's message transmitter and a
\* message transmitter's domain are constructor arguments.
Constructed(c) == Called(c, "constructor")
ImplementationOf(proxy) == {c.a1 : c \in Constructed(proxy)}
TransmitterOf(messenger) ==
    {c.a1 : c \in UNION {Constructed(i) : i \in ImplementationOf(messenger)}}
DomainOf(transmitter) ==
    {c.n1 : c \in UNION {Constructed(i) : i \in ImplementationOf(transmitter)}}

\* The mint a receiveMessage(message, attestation) sent by `caller` to
\* `transmitter` makes, or none: the token, the recipient and its amount, the
\* fee recipient and the fee.
Mints(transmitter, caller, m, attestation) ==
    IF Len(m) < message_body_start + 228 THEN {}
    ELSE
    {[token |-> token, to |-> MsgMintRecipient(m),
      amount |-> MsgAmount(m) - MsgFeeExecuted(m),
      feeRecipient |-> feeRecipient, fee |-> MsgFeeExecuted(m)] :
        <<token, feeRecipient>> \in
            {<<t, f>> \in Tokens \X Accounts :
                LET messenger == MsgRecipient(m)
                IN  /\ Initialized(transmitter)
                    /\ \E a \in Attesters(transmitter) :
                           attestation = SignHash(a, Keccak(m))
                    /\ MsgDestinationDomain(m) \in DomainOf(transmitter)
                    /\ MsgDestinationCaller(m) \in {"", caller}
                    /\ MsgNonce(m) \notin usedNonces[transmitter]
                    /\ messenger \in deployed
                    /\ transmitter \in TransmitterOf(messenger)
                    /\ MsgSender(m) \in
                           RemoteTokenMessengers(messenger, MsgSourceDomain(m))
                    /\ MsgFeeExecuted(m) <= MsgMaxFee(m)
                    /\ MsgFeeExecuted(m) < MsgAmount(m)
                    /\ f \in FeeRecipientOf(messenger)
                    /\ \E minter \in TokenMinterOf(messenger) :
                           /\ messenger \in LocalTokenMessengers(minter)
                           /\ t \in LocalTokens(minter, MsgSourceDomain(m),
                                                MsgBurnToken(m))
                           /\ IsMinter(t, minter)}}

\* The message a depositForBurn statement s emits on the message transmitter
\* of its token messenger, or none when the call reverts.
Burns(s) ==
    {[transmitter |-> t,
      message |-> EmittedMessage(d, s.n2, s.target, r, s.a3, s.n4,
                                 s.a2, s.a1, s.n1, s.caller, s.n3)] :
        <<t, d, r>> \in
            {<<t, d, r>> \in Transmitters \X {eth_domain, avax_domain} \X Contracts :
                /\ Initialized(s.target)
                /\ t \in TransmitterOf(s.target)
                /\ d \in DomainOf(t)
                /\ r \in RemoteTokenMessengers(s.target, s.n2)
                /\ s.a2 \in Tokens
                /\ s.n1 > 0
                /\ s.n3 < s.n1
                /\ s.n3 >= min_fee
                /\ balances[s.a2][s.caller] >= s.n1
                /\ allowance[s.a2][s.caller] =
                       [spender |-> s.target, amount |-> s.n1]
                /\ \E minter \in TokenMinterOf(s.target) :
                       /\ s.target \in LocalTokenMessengers(minter)
                       /\ \E limit \in BurnLimit(minter, s.a2) : s.n1 <= limit
                       /\ IsMinter(s.a2, minter)}}

\* The contracts the script initializes through initialize().
InitializedByScript ==
    {Script[i].target : i \in {j \in 1..Len(Script) : Script[j].fn = "initialize"}}

\* Whether the transaction of statement s succeeds when it is mined.
Succeeds(s) ==
    /\ s.refs \subseteq deployed
    /\ CASE s.op = "deploy" -> TRUE
         [] s.fn = "initialize" -> ~Initialized(s.target)
         [] s.fn \in {"initializeV2", "initializeV2_1"} ->
                Initialized(s.target) /\ Called(s.target, s.fn) = {}
         [] s.fn = "mint" -> IsMinter(s.target, s.caller)
         [] s.fn = "depositForBurn" -> Burns(s) # {}
         [] s.fn = "receiveMessage" ->
                Mints(s.target, s.caller, signed[s.a1].signable_bytes,
                      signed[s.a1].signed_bytes) # {}
         [] OTHER -> s.target \in InitializedByScript => Initialized(s.target)

\* The state before setUp: a node with none of the contracts, no transaction
\* sent.
timeout == 30

ScriptInit ==
    /\ pc = 1
    /\ phase = "call"
    /\ status = "running"
    /\ counter = 0
    /\ polls = 0
    /\ lastPoll = "none"
    /\ bound = {}
    /\ signed = [c \in {"eth", "avax"} |-> NoResult]
    /\ observed = <<>>

NodeInit ==
    /\ txs = <<>>
    /\ txCount = [a \in Accounts |-> 0]
    /\ deployed = {}
    /\ calls = {}
    /\ balances = [t \in Tokens |-> [a \in Accounts |-> 0]]
    /\ allowance = [t \in Tokens |-> [a \in Accounts |-> [spender |-> "", amount |-> 0]]]
    /\ logs = [t \in Transmitters |-> <<>>]
    /\ usedNonces = [t \in Transmitters |-> {}]

\* The other scripts at rest.
EnvIdle ==
    /\ envFile = <<>>
    /\ fileBefore = <<>>
    /\ processEnv = <<>>
    /\ environ = <<>>
    /\ getenvKeys = {}
    /\ remoteNonce = 0
    /\ sinceRead = 0
    /\ created = <<>>
    /\ runs = 0
    /\ scriptPc = "start"

initial_count == 10

CounterConstructor(n) == n
IncrementCounter(c) == c + 1
DecrementCounter(c) == c - 1

TestMethods == {"test_increment", "test_decrement"}
MaxTests == 4

CounterInit ==
    /\ counters = <<>>
    /\ selfCounter = 0
    /\ current = 0
    /\ testName = ""
    /\ testPc = "idle"
    /\ ran = <<>>

CounterIdle == CounterInit

(***************************************************************************)
(* SpecPatch: update_and_sign_emitted_message applied to every byte string *)
(* of 0..MaxLen bytes of MaxFill+1 fillings.                               *)
(***************************************************************************)
MaxLen == 380
MaxFill == 1

InputMessage(n, k) == [i \in 1..n |-> (k * (i + 2)) % 256]

InitPatch ==
    /\ \E n \in 0..MaxLen, k \in 0..MaxFill : message_bytes = InputMessage(n, k)
    /\ result = NoResult
    /\ ScriptInit
    /\ NodeInit
    /\ EnvIdle
    /\ CounterIdle

CallUpdateAndSign ==
    /\ ~result.returned
    /\ result' = UpdateAndSignEmittedMessage(message_bytes)
    /\ UNCHANGED <<message_bytes, scriptVars, nodeVars, envVars, counterVars>>

NextPatch == CallUpdateAndSign

SpecPatch == InitPatch /\ [][NextPatch]_vars

(***************************************************************************)
(* The node: a pending transaction is mined at some time, and succeeds or  *)
(* reverts (its receipt then has status 1 or 0).  An account's            *)
(* transactions are mined in the order of their nonces.                    *)
(***************************************************************************)
SenderOf(s) == IF s.caller = "" THEN "default" ELSE s.caller

Credit(b, token, who, amount) ==
    [b EXCEPT ![token][who] = @ + amount]

TheMint(s) ==
    CHOOSE x \in Mints(s.target, s.caller, signed[s.a1].signable_bytes,
                       signed[s.a1].signed_bytes) : TRUE

TheBurn(s) == CHOOSE x \in Burns(s) : TRUE

NewBalances(s) ==
    CASE s.fn = "mint" -> Credit(balances, s.target, s.a1, s.n1)
      [] s.fn = "depositForBurn" -> Credit(balances, s.a2, s.caller, 0 - s.n1)
      [] s.fn = "receiveMessage" ->
            LET x == TheMint(s)
            IN  Credit(Credit(balances, x.token, x.to, x.amount),
                       x.token, x.feeRecipient, x.fee)
      [] OTHER -> balances

NewAllowance(s) ==
    CASE s.fn = "approve" ->
            [allowance EXCEPT ![s.target][s.caller] =
                [spender |-> s.a1, amount |-> s.n1]]
      [] s.fn = "depositForBurn" ->
            [allowance EXCEPT ![s.a2][s.caller].amount = @ - s.n1]
      [] OTHER -> allowance

NewLogs(s) ==
    IF s.fn = "depositForBurn"
    THEN LET x == TheBurn(s)
         IN  [logs EXCEPT ![x.transmitter] = Append(@, x.message)]
    ELSE logs

NewUsedNonces(s) ==
    IF s.fn = "receiveMessage"
    THEN [usedNonces EXCEPT ![s.target] =
              @ \cup {MsgNonce(signed[s.a1].signable_bytes)}]
    ELSE usedNonces

Mine ==
    \E i \in 1..Len(txs), included \in BOOLEAN :
        LET s == Script[txs[i].stmt]
            success == included /\ Succeeds(s)
        IN  /\ txs[i].status = "pending"
            /\ txs[i].nonce = txCount[txs[i].sender]
            /\ txs' = [txs EXCEPT ![i].status =
                          IF success THEN "success" ELSE "failed"]
            /\ txCount' = [txCount EXCEPT ![txs[i].sender] = @ + 1]
            /\ deployed' = IF success /\ s.op = "deploy"
                           THEN deployed \cup {s.target} ELSE deployed
            /\ calls' = IF success THEN calls \cup {Call(s)} ELSE calls
            /\ balances' = IF success THEN NewBalances(s) ELSE balances
            /\ allowance' = IF success THEN NewAllowance(s) ELSE allowance
            /\ logs' = IF success THEN NewLogs(s) ELSE logs
            /\ usedNonces' = IF success THEN NewUsedNonces(s) ELSE usedNonces
            /\ UNCHANGED <<patchVars, envVars, counterVars, scriptVars>>

(***************************************************************************)
(* The script.                                                             *)
(***************************************************************************)
Running == status = "running" /\ pc <= Len(Script)
Cur == Script[pc]

\* The mutant of GetTransactionCount: the count of a new account.
TransactionCountOfNewAccount(a) == 0

\* Lines 87 and 117: self.w3.eth.get_transaction_count(addresses[caller]);
\* transact() (line 101) leaves the nonce to the node.
GetTransactionCount(a) == txCount[a]

\* Lines 78-93 / 95-102 and 115-122: read the sender's transaction count,
\* build, sign and send.  A statement that reads the address of a contract
\* the script holds no handle of raises; building or sending may raise.
Submit(s, next) ==
    IF ~(s.refs \subseteq bound)
    THEN /\ status' = "AttributeError"
         /\ UNCHANGED <<pc, phase, counter, polls, lastPoll, txs>>
    ELSE \E sent \in BOOLEAN :
            IF sent
            THEN /\ txs' = Append(txs, [stmt |-> pc, sender |-> SenderOf(s),
                                        nonce |-> GetTransactionCount(SenderOf(s)),
                                        status |-> "pending", seen |-> FALSE])
                 /\ phase' = next
                 /\ pc' = IF next = "call" THEN pc + 1 ELSE pc
                 /\ counter' = 0
                 /\ polls' = 0
                 /\ lastPoll' = "none"
                 /\ UNCHANGED status
            ELSE /\ status' = "SendError"
                 /\ UNCHANGED <<pc, phase, counter, polls, lastPoll, txs>>

\* deploy_contract_from_source, lines 58-108, up to its confirm_transaction.
DeployContractFromSource ==
    /\ Running /\ phase = "call" /\ Cur.op = "deploy"
    /\ Submit(Cur, "confirm")
    /\ UNCHANGED <<patchVars, envVars, counterVars, bound, signed, observed, txCount, deployed, calls,
                   balances, allowance, logs, usedNonces>>

\* The mutant of SendTransaction: the next statement runs without
\* confirm_transaction.
SendTransactionUnconfirmed ==
    /\ Running /\ phase = "call" /\ Cur.op = "send"
    /\ Submit(Cur, "call")
    /\ UNCHANGED <<patchVars, envVars, counterVars, bound, signed, observed, txCount, deployed, calls,
                   balances, allowance, logs, usedNonces>>

\* send_transaction, lines 110-123, up to its confirm_transaction.
SendTransaction ==
    /\ Running /\ phase = "call" /\ Cur.op = "send"
    /\ Submit(Cur, "confirm")
    /\ UNCHANGED <<patchVars, envVars, counterVars, bound, signed, observed, txCount, deployed, calls,
                   balances, allowance, logs, usedNonces>>

\* What get_transaction_receipt(tx_hash).status can give: an exception (no
\* receipt yet, or the request failed), or the status of the receipt.
PollOutcomes(tx) ==
    {"raise"}
        \cup (IF tx.status = "success" THEN {"status1"} ELSE {})
        \cup (IF tx.status = "failed" THEN {"status0"} ELSE {})

\* The mutant of Returns: any receipt ends the wait.
ReturnsOnAnyReceipt(outcome) == outcome \in {"status0", "status1"}

\* Line 197: confirm_transaction returns when the receipt's status is 1.
Returns(outcome) == outcome = "status1"

\* The mutant of CaughtAndPolledAgain: an exception ends the wait as well.
OnlyStatusPolledAgain(outcome) == outcome = "status0"

\* Lines 196-202: an exception is caught and passed over, a status other than
\* 1 falls through; either way the loop counts and polls again.
CaughtAndPolledAgain(outcome) == outcome \in {"raise", "status0"}

\* The mutant of LoopContinues: the loop runs while counter <= timeout.
LoopContinuesOnceMore == counter <= timeout

\* Line 195: while counter < timeout.
LoopContinues == counter < timeout

\* One iteration of confirm_transaction's loop, lines 195-202, with its one
\* get_transaction_receipt; on return, the rest of deploy_contract_from_source
\* (lines 106-108) or of send_transaction.
ConfirmTransaction ==
    /\ Running /\ phase = "confirm" /\ LoopContinues
    /\ \E outcome \in PollOutcomes(txs[Len(txs)]) :
          /\ lastPoll' = outcome
          /\ polls' = polls + 1
          /\ IF Returns(outcome)
             THEN /\ txs' = [txs EXCEPT ![Len(txs)].seen = (outcome = "status1")]
                  /\ phase' = "call"
                  /\ pc' = pc + 1
                  /\ bound' = IF Cur.op = "deploy"
                              THEN bound \cup {Cur.target} ELSE bound
                  /\ UNCHANGED <<counter, status>>
             ELSE IF CaughtAndPolledAgain(outcome)
             THEN /\ counter' = counter + 1
                  /\ UNCHANGED <<txs, phase, pc, bound, status>>
             ELSE /\ status' = "Exception"
                  /\ UNCHANGED <<txs, phase, pc, bound, counter>>
    /\ UNCHANGED <<patchVars, envVars, counterVars, signed, observed, txCount, deployed, calls,
                   balances, allowance, logs, usedNonces>>

\* Lines 204-206: the loop ended without a return.
ConfirmTimeout ==
    /\ Running /\ phase = "confirm" /\ ~LoopContinues
    /\ status' = "RuntimeError"
    /\ UNCHANGED <<patchVars, envVars, counterVars, pc, phase, counter, polls, lastPoll, bound, signed,
                   observed, nodeVars>>

\* What a verify_* call reads.
UserBalances ==
    << balances["eth_usdc"]["eth_token_messenger_user"],
       balances["avax_usdc"]["avax_token_messenger_user"] >>

FeesCollected ==
    << balances["eth_usdc"]["eth_token_messenger_deployer"],
       balances["avax_usdc"]["avax_token_messenger_deployer"] >>

VerifyStep(read) ==
    /\ observed' = Append(observed, [op |-> Cur.op, line |-> Cur.line, read |-> read])
    /\ IF read = <<Cur.n1, Cur.n2>>
       THEN pc' = pc + 1 /\ UNCHANGED status
       ELSE status' = "AssertionError" /\ UNCHANGED pc
    /\ UNCHANGED <<patchVars, envVars, counterVars, phase, counter, polls, lastPoll, bound, signed, nodeVars>>

\* verify_balances, lines 125-141.
VerifyBalances ==
    /\ Running /\ phase = "call" /\ Cur.op = "verify_balances"
    /\ VerifyStep(UserBalances)

\* verify_fees_collected, lines 143-159.
VerifyFeesCollected ==
    /\ Running /\ phase = "call" /\ Cur.op = "verify_fees_collected"
    /\ VerifyStep(FeesCollected)

\* Lines 558-565 and 604-611: the first MessageSent event of the message
\* transmitter, patched and signed.
UpdateAndSign ==
    /\ Running /\ phase = "call" /\ Cur.op = "update_and_sign"
    /\ IF logs[Cur.target] = <<>>
       THEN status' = "IndexError" /\ UNCHANGED <<pc, signed>>
       ELSE /\ signed' = [signed EXCEPT ![Cur.a1] =
                              UpdateAndSignEmittedMessage(logs[Cur.target][1])]
            /\ pc' = pc + 1
            /\ UNCHANGED status
    /\ UNCHANGED <<patchVars, envVars, counterVars, phase, counter, polls, lastPoll, bound, observed, nodeVars>>

\* The test method returned.
Finish ==
    /\ status = "running" /\ pc = Len(Script) + 1
    /\ status' = "passed"
    /\ UNCHANGED <<patchVars, envVars, counterVars, pc, phase, counter, polls, lastPoll, bound, signed,
                   observed, nodeVars>>

Init ==
    /\ message_bytes = <<>>
    /\ result = NoResult
    /\ ScriptInit
    /\ NodeInit
    /\ EnvIdle
    /\ CounterIdle

Next ==
    \/ DeployContractFromSource
    \/ SendTransaction
    \/ ConfirmTransaction
    \/ ConfirmTimeout
    \/ Mine
    \/ VerifyBalances
    \/ VerifyFeesCollected
    \/ UpdateAndSign
    \/ Finish

Spec == Init /\ [][Next]_vars

\* The script is a running process: the loop of confirm_transaction takes its
\* next iteration (the request and time.sleep(1) both end), and the raise
\* after the loop is executed.
SpecLive == Spec /\ WF_vars(ConfirmTransaction) /\ WF_vars(ConfirmTimeout)

(***************************************************************************)
(* C4  For every emitted message (one that holds the patched fields, so of *)
(* at least 344 bytes), update_and_sign_emitted_message returns bytes that *)
(* hold keccak("nonce") at offsets [12,44), 1000 as a 4-byte big-endian    *)
(* integer at [144,148) and 5 as a 32-byte big-endian integer at           *)
(* [312,344), with the attester's signature over the hash of the returned  *)
(* bytes and not over the hash of the message as emitted.                  *)
(***************************************************************************)
C4_PatchedFieldsAndSignature ==
    (result.returned /\ Len(message_bytes) >= 344) =>
        LET sb == result.signable_bytes
        IN  /\ SubSeq(sb, 13, 44) = KeccakOfNonceText
            /\ SubSeq(sb, 145, 148) = <<0, 0, 3, 232>>
            /\ FromBytesBig(SubSeq(sb, 145, 148)) = 1000
            /\ SubSeq(sb, 313, 344) = [i \in 1..32 |-> IF i = 32 THEN 5 ELSE 0]
            /\ FromBytesBig(SubSeq(sb, 313, 344)) = 5
            /\ result.signed_bytes = SignHash("attester", Keccak(sb))
            /\ result.signed_bytes # SignHash("attester", Keccak(message_bytes))

C4_Witness ==
    /\ result.returned
    /\ Len(message_bytes) = 376
    /\ result.signable_bytes # message_bytes
    /\ result.signed_bytes.signer = "attester"

\* The bytes of a and b outside the three patched ranges agree.
SameOutsidePatch(a, b) ==
    \A i \in 1..Len(a) :
        (i \notin 13..44 /\ i \notin 145..148 /\ i \notin 313..344) =>
            (i <= Len(b) /\ a[i] = b[i])

Confirmed == {i \in 1..Len(txs) : i < Len(txs) \/ phase = "call"}
TxStmt(i) == Script[txs[i].stmt]
TxsOf(fn, st) == {i \in 1..Len(txs) : TxStmt(i).fn = fn /\ txs[i].status = st}

C1_Expected ==
    << <<100, 100>>, <<0, 0>>, <<100, 0>>, <<0, 0>>, <<195, 0>>, <<5, 0>>,
       <<95, 0>>, <<5, 0>>, <<95, 95>>, <<5, 5>> >>

(***************************************************************************)
(* C1  In test_crosschain_transfer the (ETH user, AVAX user) balances and  *)
(* the (ETH, AVAX) fee recipients' balances read after each step are       *)
(* (100,100)/(0,0) after the two mints, (100,0)/(0,0) after the AVAX       *)
(* depositForBurn, (195,0)/(5,0) after receiveMessage on ETH, (95,0)/(5,0) *)
(* after the ETH depositForBurn and (95,95)/(5,5) after receiveMessage on  *)
(* AVAX: every read is the expected one, in this order, no assertion       *)
(* fails, and a run that passes has made all ten reads.                    *)
(***************************************************************************)
C1_BalancesAfterEachStep ==
    /\ Len(observed) <= Len(C1_Expected)
    /\ \A i \in 1..Len(observed) :
          /\ observed[i].read = C1_Expected[i]
          /\ observed[i].op = IF i % 2 = 1 THEN "verify_balances"
                              ELSE "verify_fees_collected"
    /\ status # "AssertionError"
    /\ status = "passed" => Len(observed) = Len(C1_Expected)
    /\ Len(observed) >= 2 => TxsOf("mint", "success") # {}
    /\ Len(observed) >= 4 => Cardinality(TxsOf("depositForBurn", "success")) >= 1
    /\ Len(observed) >= 6 => Cardinality(TxsOf("receiveMessage", "success")) >= 1
    /\ Len(observed) >= 8 => Cardinality(TxsOf("depositForBurn", "success")) = 2
    /\ Len(observed) >= 10 => Cardinality(TxsOf("receiveMessage", "success")) = 2

C1_Witness ==
    /\ status = "passed"
    /\ Len(observed) = 10
    /\ observed[5].read = <<195, 0>>
    /\ observed[10].read = <<5, 5>>

(***************************************************************************)
(* C2  confirm_transaction returns normally only if a poll observed a      *)
(* receipt with status 1, so never for a transaction that did not reach    *)
(* success status, and it raises RuntimeError when none of its `timeout`   *)
(* polls observed status 1.                                                *)
(***************************************************************************)
C2_ConfirmOnlyOnSuccess ==
    /\ \A i \in Confirmed : txs[i].seen /\ txs[i].status = "success"
    /\ (phase = "call" /\ Len(txs) > 0) => lastPoll = "status1"
    /\ phase = "confirm" =>
          /\ ~txs[Len(txs)].seen
          /\ counter <= timeout
          /\ counter > 0 => lastPoll \in {"raise", "status0"}
          /\ (counter = timeout /\ status # "running") => status = "RuntimeError"
    /\ status = "RuntimeError" =>
          /\ phase = "confirm"
          /\ counter = timeout
          /\ ~txs[Len(txs)].seen

C2_Witness ==
    /\ status = "RuntimeError"
    /\ counter = timeout
    /\ txs[Len(txs)].status = "failed"
    /\ lastPoll = "status0"
    /\ Len(txs) > 1
    /\ txs[1].seen

(***************************************************************************)
(* C3 as stated: every failure other than the confirmation timeout, a      *)
(* receipt with failure status and an error raised while fetching a        *)
(* receipt included, terminates the run; nothing is attempted again after  *)
(* it failed.                                                              *)
(***************************************************************************)
C3_Original ==
    (phase = "confirm" /\ lastPoll \in {"raise", "status0"}) => status # "running"

(***************************************************************************)
(* C3 amended: a failure to build or send a transaction terminates the     *)
(* run, and no transaction is sent again; inside confirm_transaction an    *)
(* error raised while fetching the receipt is caught and a receipt with    *)
(* failure status is passed over, the receipt being fetched again up to    *)
(* `timeout` times, and such a failure ends the run only as the timeout's  *)
(* RuntimeError; once the run has ended on an exception, the script does   *)
(* nothing more.                                                           *)
(***************************************************************************)
C3_FailuresPropagateExceptPolls ==
    /\ [](/\ \A i, j \in 1..Len(txs) : i < j => txs[i].stmt < txs[j].stmt
          /\ status # "Exception"
          /\ \A i \in 1..Len(txs) :
                txs[i].status = "failed" =>
                    /\ i = Len(txs)
                    /\ phase = "confirm"
                    /\ status \in {"running", "RuntimeError"}
          /\ (phase = "confirm" /\ lastPoll \in {"raise", "status0"}) =>
                /\ counter \in 1..timeout
                /\ status \in {"running", "RuntimeError"}
                /\ status = "RuntimeError" => counter = timeout)
    /\ [][status \notin {"running", "passed"} => UNCHANGED scriptVars]_vars
    /\ [][status' = "SendError" => (status = "running" /\ txs' = txs)]_vars

C3_Witness ==
    /\ status = "running"
    /\ phase = "confirm"
    /\ lastPoll = "raise"
    /\ counter = 3
    /\ txs[Len(txs)].status = "failed"

(***************************************************************************)
(* C6  Execution is strictly sequential: at most one transaction the       *)
(* script sent is unconfirmed, it is the one sent last, and every other    *)
(* one was observed with a success receipt before the next was sent;       *)
(* while the script reads balances, events or a deployed address, none is  *)
(* unconfirmed, and it holds the address of deployed contracts only.       *)
(***************************************************************************)
C6_StrictlySequential ==
    /\ Cardinality({i \in 1..Len(txs) : ~txs[i].seen}) <= 1
    /\ Cardinality({i \in 1..Len(txs) : txs[i].status = "pending"}) <= 1
    /\ \A i \in 1..Len(txs) :
          i < Len(txs) => (txs[i].seen /\ txs[i].status = "success")
    /\ (phase = "call" /\ status \in {"running", "passed"}) =>
          \A i \in 1..Len(txs) : txs[i].seen
    /\ bound \subseteq deployed

C6_Witness ==
    /\ Len(txs) = 3
    /\ txs[3].status = "pending"
    /\ txs[1].seen /\ txs[2].seen
    /\ phase = "confirm"

\* The transaction that deployed contract c, or 0.
DeployTx(c) ==
    IF \E i \in 1..Len(txs) : TxStmt(i).op = "deploy" /\ TxStmt(i).target = c
    THEN CHOOSE i \in 1..Len(txs) : TxStmt(i).op = "deploy" /\ TxStmt(i).target = c
    ELSE 0

\* The transaction that called fn of contract c, or 0.
CallTx(c, fn) ==
    IF \E i \in 1..Len(txs) : TxStmt(i).fn = fn /\ TxStmt(i).target = c
    THEN CHOOSE i \in 1..Len(txs) : TxStmt(i).fn = fn /\ TxStmt(i).target = c
    ELSE 0

\* Transaction j, if sent, was sent after transaction i was confirmed.
After(i, j) == j # 0 => (i # 0 /\ i < j /\ txs[i].seen)

(***************************************************************************)
(* C7  setUp deploys in dependency order: on each chain the implementation *)
(* is deployed and confirmed before its proxy, the proxy before the        *)
(* initialize call made through it, the message transmitter proxy before   *)
(* the token messenger that takes its address, the token minter before    *)
(* the token messenger initialize that names it, and no transaction        *)
(* references the address of a contract whose deployment is not confirmed. *)
(***************************************************************************)
C7_DependencyOrder ==
    /\ status # "AttributeError"
    /\ \A i \in 1..Len(txs) :
          \A c \in TxStmt(i).refs : After(DeployTx(c), i)
    /\ \A c \in {"eth", "avax"} :
          /\ After(DeployTx(c \o "_message_transmitter_impl"),
                   DeployTx(c \o "_message_transmitter_proxy"))
          /\ After(DeployTx(c \o "_message_transmitter_proxy"),
                   CallTx(c \o "_message_transmitter_proxy", "initialize"))
          /\ After(DeployTx(c \o "_message_transmitter_proxy"),
                   DeployTx(c \o "_token_messenger_impl"))
          /\ After(DeployTx(c \o "_token_messenger_impl"),
                   DeployTx(c \o "_token_messenger_proxy"))
          /\ After(DeployTx(c \o "_token_messenger_proxy"),
                   CallTx(c \o "_token_messenger_proxy", "initialize"))
          /\ After(DeployTx(c \o "_token_minter"),
                   CallTx(c \o "_token_messenger_proxy", "initialize"))

C7_Witness ==
    /\ pc = Len(SetUp) + 1
    /\ status = "running"
    /\ Cardinality(bound) = 12
    /\ CallTx("avax_token_messenger_proxy", "initialize") # 0

Total == UserBalances[1] + UserBalances[2] + FeesCollected[1] + FeesCollected[2]

(***************************************************************************)
(* C8  Each completed transfer mints on the destination chain what was     *)
(* burned on the source chain, 95 to the recipient and 5 to the fee        *)
(* recipient: with B burns and R receives done, R <= B <= R + 1, the users *)
(* and fee recipients together hold the amount minted less 100 per burn    *)
(* not yet received, so the 200 minted after each receiveMessage and 100   *)
(* less between a depositForBurn and its receiveMessage, and the fee       *)
(* recipients hold 5 per receive.                                          *)
(***************************************************************************)
C8_BurnAndMintConserves ==
    LET minted == mint_amount * Cardinality(TxsOf("mint", "success"))
        B == Cardinality(TxsOf("depositForBurn", "success"))
        R == Cardinality(TxsOf("receiveMessage", "success"))
    IN  /\ R <= B /\ B <= R + 1
        /\ Total = minted - 100 * (B - R)
        /\ B >= 1 => minted = 200
        /\ (R >= 1 /\ B = R) => Total = 200
        /\ B = R + 1 => Total = 100
        /\ FeesCollected[1] + FeesCollected[2] = 5 * R
        /\ UserBalances[1] + UserBalances[2] = minted - 100 * B + 95 * R

C8_Witness ==
    /\ Cardinality(TxsOf("depositForBurn", "success")) = 2
    /\ Cardinality(TxsOf("receiveMessage", "success")) = 1
    /\ Total = 100
    /\ UserBalances = <<95, 0>>

(***************************************************************************)
(* C11  confirm_transaction always terminates: a run that is inside it     *)
(* leaves it, by a return or by its RuntimeError.  A transaction's receipt *)
(* is queried at most `timeout` (30) times; the poll that sees status 1 is *)
(* the transaction's last one and returns to the caller; the RuntimeError  *)
(* is raised after exactly `timeout` polls, none of which saw status 1;    *)
(* and once it is raised no transaction is sent any more.                  *)
(***************************************************************************)
C11_ConfirmTerminates ==
    /\ [](polls <= timeout)
    /\ [](status = "RuntimeError" =>
              /\ polls = timeout
              /\ ~txs[Len(txs)].seen)
    /\ [][/\ polls' = polls + 1 =>
                /\ txs # <<>> /\ ~txs[Len(txs)].seen
                /\ lastPoll' = "status1" =>
                      /\ txs'[Len(txs)].seen
                      /\ phase' = "call" /\ pc' = pc + 1 /\ status' = "running"
          /\ polls' # polls => polls' = polls + 1 \/ (polls' = 0 /\ Len(txs') = Len(txs) + 1)
          /\ status = "RuntimeError" =>
                Len(txs') = Len(txs) /\ status' = status /\ polls' = polls]_vars
    /\ (status = "running" /\ phase = "confirm")
           ~> (phase = "call" \/ status = "RuntimeError")

\* The wait of a transaction that is never mined has timed out, after a wait
\* that returned at its third poll.
C11_Witness ==
    /\ status = "RuntimeError"
    /\ polls = 30
    /\ txs[Len(txs)].status = "pending"
    /\ Len(txs) = 2
    /\ txs[1].seen

(***************************************************************************)
(* C12  When setUp has completed the two chains are wired symmetrically:   *)
(* the ETH token messenger has the AVAX token messenger as its one remote  *)
(* token messenger of the AVAX domain, registered by                       *)
(* addRemoteTokenMessenger, and the AVAX token messenger has the ETH token *)
(* messenger as its one remote token messenger of the ETH domain,          *)
(* registered by initialize; each token minter has the token messenger of  *)
(* its own chain, and only it, as local token messenger; and each token    *)
(* minter links its chain's USDC, and only it, to the USDC of the other    *)
(* chain under the other chain's domain.                                   *)
(***************************************************************************)
C12_SymmetricWiring ==
    pc > Len(SetUp) =>
        /\ RemoteTokenMessengers("eth_token_messenger_proxy", avax_domain)
               = {"avax_token_messenger_proxy"}
        /\ RemoteTokenMessengers("avax_token_messenger_proxy", eth_domain)
               = {"eth_token_messenger_proxy"}
        /\ RemoteTokenMessengers("eth_token_messenger_proxy", eth_domain) = {}
        /\ RemoteTokenMessengers("avax_token_messenger_proxy", avax_domain) = {}
        /\ \E c \in Called("eth_token_messenger_proxy", "addRemoteTokenMessenger") :
               c.n1 = avax_domain /\ c.a1 = "avax_token_messenger_proxy"
        /\ Called("avax_token_messenger_proxy", "addRemoteTokenMessenger") = {}
        /\ \E c \in Called("avax_token_messenger_proxy", "initialize") :
               c.n2 = 1 /\ c.n1 = eth_domain /\ c.a3 = "eth_token_messenger_proxy"
        /\ \A c \in Called("eth_token_messenger_proxy", "initialize") : c.n2 = 0
        /\ \A c \in {"eth", "avax"} :
               LocalTokenMessengers(c \o "_token_minter")
                   = {c \o "_token_messenger_proxy"}
        /\ LocalTokens("eth_token_minter", avax_domain, "avax_usdc") = {"eth_usdc"}
        /\ LocalTokens("avax_token_minter", eth_domain, "eth_usdc") = {"avax_usdc"}
        /\ \A c \in Called("eth_token_minter", "linkTokenPair") :
               <<c.a1, c.n1, c.a2>> = <<"eth_usdc", avax_domain, "avax_usdc">>
        /\ \A c \in Called("avax_token_minter", "linkTokenPair") :
               <<c.a1, c.n1, c.a2>> = <<"avax_usdc", eth_domain, "eth_usdc">>

\* setUp has just completed.
C12_Witness ==
    /\ pc = Len(SetUp) + 1
    /\ phase = "call"
    /\ status = "running"
    /\ Len(txs) = Len(SetUp)
    /\ txs[Len(txs)].seen
    /\ Script[txs[Len(txs)].stmt].fn = "addRemoteTokenMessenger"

\* The accounts and the contracts of chain c ("eth", "avax").
AccountsOf(c) ==
    {c \o "_usdc_master_minter", c \o "_message_transmitter_deployer",
     c \o "_token_minter_deployer", c \o "_token_messenger_deployer",
     c \o "_token_controller", c \o "_token_messenger_user"}

ProxiesOf(c) == {c \o "_message_transmitter_proxy", c \o "_token_messenger_proxy"}

ContractsOf(c) ==
    {c \o "_usdc", c \o "_message_transmitter_impl", c \o "_token_minter",
     c \o "_token_messenger_impl"} \cup ProxiesOf(c)

(***************************************************************************)
(* C13 as stated: every transaction an account of addresses[] signs to     *)
(* deploy, initialize or configure a contract of the AVAX side is sent by  *)
(* an avax_* account, every such transaction on a contract of the ETH side *)
(* by an eth_* account, and the initialize of each proxy is sent by the    *)
(* account that deployed that proxy.  The script does not do this: line    *)
(* 431 sends the AVAX token messenger's initialize from                    *)
(* eth_token_messenger_deployer.                                           *)
(***************************************************************************)
C13_Original ==
    \A i \in 1..Len(txs) :
        LET s == TxStmt(i)
        IN  \A c \in {"eth", "avax"} :
                /\ (s.line <= 512 /\ s.caller # "" /\ s.target \in ContractsOf(c)) =>
                       txs[i].sender \in AccountsOf(c)
                /\ (s.fn = "initialize" /\ s.target \in ProxiesOf(c)) =>
                       /\ DeployTx(s.target) # 0
                       /\ txs[i].sender = txs[DeployTx(s.target)].sender

\* The AVAX token messenger proxy, deployed by avax_token_messenger_deployer,
\* has been initialized by a confirmed transaction of
\* eth_token_messenger_deployer.
C13_Witness ==
    \E i \in 1..Len(txs) :
        /\ TxStmt(i).fn = "initialize"
        /\ TxStmt(i).target = "avax_token_messenger_proxy"
        /\ TxStmt(i).line = 417
        /\ txs[i].seen
        /\ txs[i].sender = "eth_token_messenger_deployer"
        /\ txs[DeployTx("avax_token_messenger_proxy")].sender
               = "avax_token_messenger_deployer"
        /\ Initialized("avax_token_messenger_proxy")

(***************************************************************************)
(* C14  Every transaction that send_transaction or                         *)
(* deploy_contract_from_source builds for a caller is signed by that       *)
(* caller and carries as nonce the caller's transaction count at the time  *)
(* it is built; in a run no two transactions of one account carry the same *)
(* nonce, and the nonce of a transaction is the number of the account's    *)
(* transactions that were confirmed before it.                             *)
(***************************************************************************)
C14_NonceIsTransactionCount ==
    /\ [](\A i \in 1..Len(txs) :
             TxStmt(i).caller # "" =>
                /\ txs[i].sender = TxStmt(i).caller
                /\ txs[i].nonce =
                       Cardinality({j \in 1..(i - 1) :
                                       txs[j].sender = txs[i].sender /\ txs[j].seen})
                /\ \A j \in 1..Len(txs) :
                       (j # i /\ txs[j].sender = txs[i].sender) =>
                           txs[j].nonce # txs[i].nonce)
    /\ [][Len(txs') = Len(txs) + 1 =>
              txs'[Len(txs')].nonce = txCount[txs'[Len(txs')].sender]]_vars

\* eth_token_messenger_deployer has sent its fifth transaction.
C14_Witness ==
    \E i \in 1..Len(txs) :
        /\ txs[i].sender = "eth_token_messenger_deployer"
        /\ TxStmt(i).fn = "addRemoteTokenMessenger"
        /\ txs[i].nonce = 4
        /\ txs[i].status = "pending"
        /\ txCount["eth_token_messenger_deployer"] = 4

(***************************************************************************)
(* scripts/precomputeRemoteMessengerAddress.py.  A file is the sequence of *)
(* its characters, with a key, a deployer address and "=" each kept as one *)
(* element; a line ends at "\n".                                           *)
(***************************************************************************)
DeployerKey == "REMOTE_TOKEN_MESSENGER_DEPLOYER"
AddressKey == "REMOTE_TOKEN_MESSENGER_ADDRESS"
DomainKey == "REMOTE_DOMAIN"
AnvilAccount0 == "0xf39Fd6e51aad88F6F4ce6aB8827279cffFb92266"
AnvilAccount1 == "0x70997970C51812dc3A010C7d01b50e0d17dc79C8"

\* Web3.toBytes(hexstr=sender), line 13; <<>> stands for the exception a
\* string that is no address raises.
ToBytes(hexstr) ==
    IF hexstr = <<AnvilAccount0>>
    THEN <<243, 159, 214, 229, 26, 173, 136, 246, 244, 206, 106, 184, 130, 114,
           121, 207, 255, 185, 34, 102>>
    ELSE IF hexstr = <<AnvilAccount1>>
    THEN <<112, 153, 121, 112, 197, 24, 18, 220, 58, 1, 12, 125, 1, 181, 14, 13,
           23, 220, 121, 200>>
    ELSE <<>>

\* rlp.encode of an integer below 256 and of a byte string below 56 bytes.
RlpInteger(n) ==
    IF n = 0 THEN <<128>> ELSE IF n < 128 THEN <<n>> ELSE <<129, n>>
RlpString(b) == <<128 + Len(b)>> \o b

\* rlp.encode([sender_as_bytes, nonce]), line 14.
RlpEncode(sender_as_bytes, nonce) ==
    LET payload == RlpString(sender_as_bytes) \o RlpInteger(nonce)
    IN  <<192 + Len(payload)>> \o payload

\* Web3.keccak on the inputs the model reaches: the Keccak-256 digests of
\* rlp.encode([sender, nonce]) for the two senders and nonce 0..6.
KeccakTable ==
    {
       <<<<214, 148, 243, 159, 214, 229, 26, 173, 136, 246, 244, 206, 106, 184, 130, 114, 121, 207, 255, 185, 34, 102, 128>>,
         <<20, 168, 21, 126, 97, 254, 239, 189, 227, 61, 204, 48, 95, 189, 178, 49, 86, 120, 175, 236, 179, 103, 240, 50, 217, 63, 100, 47, 100, 24, 10, 163>>>>,
       <<<<214, 148, 243, 159, 214, 229, 26, 173, 136, 246, 244, 206, 106, 184, 130, 114, 121, 207, 255, 185, 34, 102, 1>>,
         <<222, 123, 12, 158, 135, 145, 121, 2, 21, 37, 150, 175, 231, 241, 114, 94, 119, 52, 206, 40, 143, 131, 103, 225, 187, 20, 62, 144, 187, 63, 5, 18>>>>,
       <<<<214, 148, 243, 159, 214, 229, 26, 173, 136, 246, 244, 206, 106, 184, 130, 114, 121, 207, 255, 185, 34, 102, 2>>,
         <<140, 100, 62, 227, 206, 126, 9, 3, 249, 80, 215, 172, 159, 228, 103, 54, 103, 157, 45, 154, 101, 240, 153, 47, 34, 114, 222, 159, 60, 127, 166, 224>>>>,
       <<<<214, 148, 243, 159, 214, 229, 26, 173, 136, 246, 244, 206, 106, 184, 130, 114, 121, 207, 255, 185, 34, 102, 3>>,
         <<238, 59, 175, 176, 151, 219, 135, 158, 195, 168, 69, 246, 207, 126, 211, 172, 202, 90, 70, 126, 158, 112, 76, 112, 62, 141, 135, 246, 52, 251, 15, 201>>>>,
       <<<<214, 148, 243, 159, 214, 229, 26, 173, 136, 246, 244, 206, 106, 184, 130, 114, 121, 207, 255, 185, 34, 102, 4>>,
         <<84, 174, 98, 217, 157, 136, 141, 245, 2, 75, 112, 180, 220, 100, 161, 64, 170, 62, 152, 17, 0, 169, 190, 202, 78, 104, 95, 150, 47, 12, 246, 201>>>>,
       <<<<214, 148, 243, 159, 214, 229, 26, 173, 136, 246, 244, 206, 106, 184, 130, 114, 121, 207, 255, 185, 34, 102, 5>>,
         <<196, 183, 146, 39, 107, 218, 30, 138, 21, 136, 3, 168, 95, 200, 211, 38, 144, 204, 145, 212, 195, 157, 157, 58, 188, 189, 22, 152, 159, 135, 87, 7>>>>,
       <<<<214, 148, 243, 159, 214, 229, 26, 173, 136, 246, 244, 206, 106, 184, 130, 114, 121, 207, 255, 185, 34, 102, 6>>,
         <<70, 80, 231, 20, 94, 225, 67, 96, 87, 1, 52, 203, 1, 101, 135, 138, 89, 76, 162, 85, 51, 138, 223, 164, 212, 132, 73, 246, 146, 66, 235, 143>>>>,
       <<<<214, 148, 112, 153, 121, 112, 197, 24, 18, 220, 58, 1, 12, 125, 1, 181, 14, 13, 23, 220, 121, 200, 128>>,
         <<169, 59, 23, 219, 34, 88, 157, 87, 175, 158, 157, 191, 132, 100, 19, 92, 143, 37, 218, 9, 228, 155, 200, 120, 38, 118, 168, 71, 48, 195, 24, 188>>>>,
       <<<<214, 148, 112, 153, 121, 112, 197, 24, 18, 220, 58, 1, 12, 125, 1, 181, 14, 13, 23, 220, 121, 200, 1>>,
         <<4, 197, 244, 158, 237, 198, 101, 33, 161, 36, 254, 58, 113, 201, 89, 17, 233, 165, 211, 48, 244, 214, 33, 132, 46, 194, 67, 238, 19, 67, 41, 46>>>>,
       <<<<214, 148, 112, 153, 121, 112, 197, 24, 18, 220, 58, 1, 12, 125, 1, 181, 14, 13, 23, 220, 121, 200, 2>>,
         <<129, 3, 181, 181, 113, 40, 133, 118, 218, 226, 244, 134, 148, 139, 60, 101, 184, 157, 240, 180, 137, 74, 190, 145, 230, 208, 47, 229, 121, 131, 79, 143>>>>,
       <<<<214, 148, 112, 153, 121, 112, 197, 24, 18, 220, 58, 1, 12, 125, 1, 181, 14, 13, 23, 220, 121, 200, 3>>,
         <<127, 175, 246, 57, 180, 169, 161, 29, 41, 245, 74, 133, 113, 37, 22, 230, 28, 139, 56, 61, 244, 166, 60, 254, 131, 215, 112, 27, 206, 84, 176, 62>>>>,
       <<<<214, 148, 112, 153, 121, 112, 197, 24, 18, 220, 58, 1, 12, 125, 1, 181, 14, 13, 23, 220, 121, 200, 4>>,
         <<247, 31, 125, 50, 247, 124, 6, 176, 25, 254, 92, 18, 188, 242, 105, 67, 192, 25, 125, 46, 224, 229, 208, 92, 113, 107, 230, 12, 194, 118, 21, 8>>>>,
       <<<<214, 148, 112, 153, 121, 112, 197, 24, 18, 220, 58, 1, 12, 125, 1, 181, 14, 13, 23, 220, 121, 200, 5>>,
         <<133, 238, 244, 108, 160, 22, 191, 247, 96, 168, 198, 85, 89, 242, 241, 252, 254, 36, 116, 253, 95, 11, 155, 161, 231, 60, 169, 11, 20, 62, 184, 208>>>>,
       <<<<214, 148, 112, 153, 121, 112, 197, 24, 18, 220, 58, 1, 12, 125, 1, 181, 14, 13, 23, 220, 121, 200, 6>>,
         <<86, 205, 73, 49, 23, 24, 114, 115, 66, 175, 143, 148, 198, 186, 140, 50, 51, 236, 246, 91, 118, 16, 73, 239, 99, 70, 105, 69, 195, 98, 237, 210>>>>
    }

Keccak256(b) == (CHOOSE p \in KeccakTable : p[1] = b)[2]

HexChars ==
    <<"0", "1", "2", "3", "4", "5", "6", "7", "8", "9", "a", "b", "c", "d", "e", "f">>

\* Web3.toHex(bytes): "0x" and two lower-case hex characters a byte.
ToHex(b) ==
    <<"0", "x">> \o
        [i \in 1..(2 * Len(b)) |->
            IF i % 2 = 1 THEN HexChars[(b[(i + 1) \div 2] \div 16) + 1]
            ELSE HexChars[(b[i \div 2] % 16) + 1]]

\* The mutant of Suffix: s[:n]
Prefix(s, n) == IF Len(s) <= n THEN s ELSE SubSeq(s, 1, n)

\* s[-n:]
Suffix(s, n) == IF Len(s) <= n THEN s ELSE SubSeq(s, Len(s) - n + 1, Len(s))

\* compute_address, lines 8-15.
ComputeAddress(sender, nonce) ==
    Suffix(ToHex(Keccak256(RlpEncode(ToBytes(sender), nonce))), 40)

\* The lines of a file, each without its "\n".
RECURSIVE Lines(_)
Lines(f) ==
    IF f = <<>> THEN <<>>
    ELSE IF \E k \in 1..Len(f) : f[k] = "\n"
    THEN LET k == CHOOSE k \in 1..Len(f) :
                      f[k] = "\n" /\ \A j \in 1..(k - 1) : f[j] # "\n"
         IN  <<SubSeq(f, 1, k - 1)>> \o Lines(SubSeq(f, k + 1, Len(f)))
    ELSE <<f>>

\* load_dotenv's value of key in a file (the last line that sets it), <<>> when
\* no line does.
DotenvValue(f, key) ==
    LET ls == Lines(f)
        hits == {i \in 1..Len(ls) :
                    Len(ls[i]) >= 2 /\ ls[i][1] = key /\ ls[i][2] = "="}
    IN  IF hits = {} THEN <<>>
        ELSE LET i == CHOOSE i \in hits : \A j \in hits : j <= i
             IN  SubSeq(ls[i], 3, Len(ls[i]))

\* The mutant of OpenForAppend: open(".env", "w") truncates the file.
OpenForWrite(f) == <<>>

\* open(".env", "a"), line 29: what is in the file stays, writes go to its end.
OpenForAppend(f) == f

\* The text line 30 writes.
AddressLine(address) == <<AddressKey, "=", "0", "x">> \o address \o <<"\n">>

MaxNonce == 3
MaxRuns == 2

InitialFiles ==
    { <<>>,
      <<DeployerKey, "=", AnvilAccount0, "\n">>,
      <<DeployerKey, "=", AnvilAccount0>>,
      <<DomainKey, "=", "1", "\n", DeployerKey, "=", AnvilAccount1, "\n">>,
      <<DeployerKey, "=", AnvilAccount1, "\n", DomainKey, "=", "1">> }

EnvInit ==
    /\ envFile \in InitialFiles
    /\ fileBefore = envFile
    /\ processEnv \in {<<>>, <<AnvilAccount0>>}
    /\ environ = <<>>
    /\ getenvKeys = {}
    /\ remoteNonce = 0
    /\ sinceRead = 0
    /\ created = <<>>
    /\ runs = 0
    /\ scriptPc = "start"

\* load_dotenv(), line 32: a variable the process already has is kept.
LoadDotenv ==
    /\ scriptPc = "start"
    /\ environ' = IF processEnv # <<>> THEN processEnv
                  ELSE DotenvValue(envFile, DeployerKey)
    /\ scriptPc' = "loaded"
    /\ UNCHANGED <<envFile, fileBefore, processEnv, getenvKeys, remoteNonce,
                   sinceRead, created, runs>>
    /\ UNCHANGED <<patchVars, scriptVars, nodeVars, counterVars>>

\* precompute_remote_token_messenger_address, lines 17-30.  Without a
\* deployer address get_transaction_count raises and nothing is written.
PrecomputeRemoteTokenMessengerAddress ==
    /\ scriptPc = "loaded"
    /\ getenvKeys' = getenvKeys \cup {DeployerKey}
    /\ IF ToBytes(environ) = <<>>
       THEN scriptPc' = "raised" /\ UNCHANGED <<envFile, sinceRead, created>>
       ELSE /\ envFile' = OpenForAppend(envFile)
                              \o AddressLine(ComputeAddress(environ, remoteNonce))
            /\ sinceRead' = 0
            /\ created' = <<>>
            /\ scriptPc' = "done"
    /\ UNCHANGED <<fileBefore, processEnv, environ, remoteNonce, runs>>
    /\ UNCHANGED <<patchVars, scriptVars, nodeVars, counterVars>>

\* The script is run again, as a new process.
RunAgain ==
    /\ scriptPc \in {"done", "raised"}
    /\ runs < MaxRuns
    /\ runs' = runs + 1
    /\ scriptPc' = "start"
    /\ fileBefore' = envFile
    /\ environ' = <<>>
    /\ getenvKeys' = {}
    /\ UNCHANGED <<envFile, processEnv, remoteNonce, sinceRead, created>>
    /\ UNCHANGED <<patchVars, scriptVars, nodeVars, counterVars>>

\* The deployer sends a transaction on the remote chain.
RemoteTransaction ==
    /\ remoteNonce < MaxNonce
    /\ remoteNonce' = remoteNonce + 1
    /\ sinceRead' = sinceRead + 1
    /\ UNCHANGED <<envFile, fileBefore, processEnv, environ, getenvKeys, created,
                   runs, scriptPc>>
    /\ UNCHANGED <<patchVars, scriptVars, nodeVars, counterVars>>

\* The address of the contract an account creates with the transaction of
\* the given nonce: the last 20 bytes of keccak256(rlp([sender, nonce])).
CreatedAddress(sender, nonce) ==
    SubSeq(Keccak256(RlpEncode(ToBytes(sender), nonce)), 13, 32)

\* After a run of the script, the deployer creates a contract on the remote
\* chain: the remote token messenger, if it is the first.
RemoteDeployment ==
    /\ scriptPc = "done"
    /\ remoteNonce < MaxNonce
    /\ created' = Append(created,
                         [address |-> CreatedAddress(environ, remoteNonce),
                          nonce |-> remoteNonce,
                          before |-> sinceRead])
    /\ remoteNonce' = remoteNonce + 1
    /\ sinceRead' = sinceRead + 1
    /\ UNCHANGED <<envFile, fileBefore, processEnv, environ, getenvKeys, runs, scriptPc>>
    /\ UNCHANGED <<patchVars, scriptVars, nodeVars, counterVars>>

InitEnv ==
    /\ message_bytes = <<>>
    /\ result = NoResult
    /\ ScriptInit
    /\ NodeInit
    /\ EnvInit
    /\ CounterIdle

NextEnv ==
    \/ LoadDotenv
    \/ PrecomputeRemoteTokenMessengerAddress
    \/ RunAgain
    \/ RemoteTransaction
    \/ RemoteDeployment

SpecEnv == InitEnv /\ [][NextEnv]_vars

IsHex(c) == \E i \in 1..16 : HexChars[i] = c

\* REMOTE_TOKEN_MESSENGER_ADDRESS=0x<40 hex characters>
IsAddressLine(l) ==
    /\ Len(l) = 44
    /\ SubSeq(l, 1, 4) = <<AddressKey, "=", "0", "x">>
    /\ \A i \in 5..44 : IsHex(l[i])

(***************************************************************************)
(* C9 as stated: the script reads the deployer address and the remote      *)
(* domain id from the environment file; each run adds exactly one line     *)
(* REMOTE_TOKEN_MESSENGER_ADDRESS=0x<40 hex characters> at the end of .env *)
(* and leaves every line already in the file unchanged.                    *)
(***************************************************************************)
C9_Original ==
    scriptPc = "done" =>
        /\ getenvKeys = {DeployerKey, DomainKey}
        /\ environ = DotenvValue(fileBefore, DeployerKey)
        /\ Len(Lines(envFile)) = Len(Lines(fileBefore)) + 1
        /\ SubSeq(Lines(envFile), 1, Len(Lines(fileBefore))) = Lines(fileBefore)
        /\ IsAddressLine(Lines(envFile)[Len(Lines(envFile))])

\* C9 as stated, its frame part alone.
C9_OriginalFrame ==
    scriptPc = "done" =>
        /\ Len(Lines(envFile)) = Len(Lines(fileBefore)) + 1
        /\ SubSeq(Lines(envFile), 1, Len(Lines(fileBefore))) = Lines(fileBefore)
        /\ IsAddressLine(Lines(envFile)[Len(Lines(envFile))])

(***************************************************************************)
(* C9 amended: the script reads the deployer address from the process      *)
(* environment, which load_dotenv fills from .env unless the variable is   *)
(* already set, and reads no remote domain id.  A run that has a deployer  *)
(* address appends the text REMOTE_TOKEN_MESSENGER_ADDRESS=0x<40 hex       *)
(* characters> and a newline at the end of .env and leaves every character *)
(* already in the file unchanged; a run without one raises and leaves the  *)
(* file as it was.  When the file was empty or ended with a newline the    *)
(* text is exactly one added line and every line already in the file is    *)
(* unchanged; otherwise the text is joined to the file's last line.        *)
(***************************************************************************)
C9_AppendsAddressText ==
    /\ scriptPc = "raised" => envFile = fileBefore
    /\ scriptPc = "done" =>
        LET n == Len(fileBefore)
            text == SubSeq(envFile, n + 1, Len(envFile))
            before == Lines(fileBefore)
            after == Lines(envFile)
        IN  /\ getenvKeys = {DeployerKey}
            /\ environ = IF processEnv # <<>> THEN processEnv
                         ELSE DotenvValue(fileBefore, DeployerKey)
            /\ Len(envFile) = n + 45
            /\ SubSeq(envFile, 1, n) = fileBefore
            /\ IsAddressLine(SubSeq(text, 1, 44))
            /\ text[45] = "\n"
            /\ (n = 0 \/ fileBefore[n] = "\n") =>
                  /\ after = before \o <<SubSeq(text, 1, 44)>>
            /\ (n > 0 /\ fileBefore[n] # "\n") =>
                  /\ Len(after) = Len(before)
                  /\ after[Len(after)] = before[Len(before)] \o SubSeq(text, 1, 44)
                  /\ SubSeq(after, 1, Len(after) - 1) = SubSeq(before, 1, Len(before) - 1)

C9_Witness ==
    /\ scriptPc = "done"
    /\ runs = 1
    /\ remoteNonce = 1
    /\ fileBefore # <<>>
    /\ Len(Lines(envFile)) = Len(Lines(fileBefore)) + 1
    /\ Lines(envFile)[Len(Lines(envFile))] =
           SubSeq(AddressLine(ComputeAddress(environ, 1)), 1, 44)

\* The address the latest run wrote, and the transaction count it read.
Written == SubSeq(envFile, Len(envFile) - 40, Len(envFile) - 1)
NonceRead == remoteNonce - sinceRead

\* An address as the 40 hex characters the script writes.
AddressText(b) == SubSeq(ToHex(b), 3, 42)

StartTest ==
    /\ testPc = "idle"
    /\ Len(ran) < MaxTests
    /\ \E t \in TestMethods : testName' = t
    /\ testPc' = "setUp"
    /\ UNCHANGED <<counters, selfCounter, current, ran>>
    /\ UNCHANGED <<patchVars, scriptVars, nodeVars, envVars>>

\* The mutant of CounterSetUp: the counter is deployed once and shared by the tests.
CounterSetUpShared ==
    /\ testPc = "setUp"
    /\ counters' = IF counters = <<>>
                   THEN <<CounterConstructor(initial_count)>> ELSE counters
    /\ selfCounter' = 1
    /\ testPc' = "call"
    /\ UNCHANGED <<current, testName, ran>>
    /\ UNCHANGED <<patchVars, scriptVars, nodeVars, envVars>>

\* setUp, lines 15-39: deploy Counter(10), keep the contract at the address
\* of the receipt.
CounterSetUp ==
    /\ testPc = "setUp"
    /\ counters' = Append(counters, CounterConstructor(initial_count))
    /\ selfCounter' = Len(counters) + 1
    /\ testPc' = "call"
    /\ UNCHANGED <<current, testName, ran>>
    /\ UNCHANGED <<patchVars, scriptVars, nodeVars, envVars>>

\* Lines 42-43 and 47-48: current = getCount(), then the transaction.
TestCall(name) ==
    /\ testPc = "call"
    /\ testName = name
    /\ current' = counters[selfCounter]
    /\ counters' = [counters EXCEPT ![selfCounter] =
                        IF name = "test_increment" THEN IncrementCounter(@)
                        ELSE DecrementCounter(@)]
    /\ testPc' = "assert"
    /\ UNCHANGED <<selfCounter, testName, ran>>
    /\ UNCHANGED <<patchVars, scriptVars, nodeVars, envVars>>

\* Lines 44 and 49: the assertion on getCount().
TestAssert(name, expected) ==
    /\ testPc = "assert"
    /\ testName = name
    /\ ran' = Append(ran, [test |-> name, counter |-> selfCounter,
                           current |-> current,
                           after |-> counters[selfCounter],
                           passed |-> (counters[selfCounter] = expected)])
    /\ testPc' = "idle"
    /\ UNCHANGED <<counters, selfCounter, current, testName>>
    /\ UNCHANGED <<patchVars, scriptVars, nodeVars, envVars>>

\* test_increment, lines 41-44.
TestIncrement ==
    \/ TestCall("test_increment")
    \/ TestAssert("test_increment", current + 1)

\* test_decrement, lines 46-49.
TestDecrement ==
    \/ TestCall("test_decrement")
    \/ TestAssert("test_decrement", current - 1)

InitCounter ==
    /\ message_bytes = <<>>
    /\ result = NoResult
    /\ ScriptInit
    /\ NodeInit
    /\ EnvIdle
    /\ CounterInit

NextCounter ==
    \/ StartTest
    \/ CounterSetUp
    \/ TestIncrement
    \/ TestDecrement

SpecCounter == InitCounter /\ [][NextCounter]_vars

=============================================================================
